---- MODULE Spec2Model ----
(***************************************************************************)
(* Model of Scripts/init.py: the source-path resolver of the RemakeEngine   *)
(* bootstrap (check_or_create_config and its driver main).                  *)
(*                                                                          *)
(* A path is a sequence of components (<<>> is the empty string).  A value  *)
(* that the program stores or returns as a path carries its Python type:    *)
(* os.path.join yields a str, pathlib's "/" yields a Path object, and       *)
(* json.dump accepts the first and raises TypeError on the second.          *)
(***************************************************************************)
EXTENDS Integers, Sequences, FiniteSets, TLC

\* ------------------------------------------------------------------ bounds
\* invalid answers the operator may give to one prompt loop in one run
MaxPrompts == 1
\* invocations of the script by the operator
MaxRuns == 2

\* --------------------------------------------------------------- constants
USRDIR_DIRS ==
    <<"ENVS", "FMV", "GRAPHICS", "GUIMENU", "IRX", "MISC", "SOUNDS", "SUBTITLE">>

USRDIR_DIRS_ORIGINAL ==
    <<"ENVS", "FMV", "GRAPHICS", "GUIMENU", "IRX", "MISC", "SOUNDS", "SUBTITLE">>

CREATED == "CREATED"

EXISTS_VALID == "EXISTS_VALID"

EXISTS_INVALID_SUBDIRS == "EXISTS_INVALID_SUBDIRS"

ERROR_CREATE == "ERROR_CREATE"

ERROR_READ == "ERROR_READ"

USER_PROVIDED_PATH_INVALID == "USER_PROVIDED_PATH_INVALID"

ERROR_CONFIG_UPDATE == "ERROR_CONFIG_UPDATE"
ERROR_FILE_OPERATION == "ERROR_FILE_OPERATION"

\* no status yet (the function has not returned)
NoStatus == "NONE"

project_base_dir == <<"PROJ">>

local_data_path == <<"PROJ", "Source\\GameFiles\\SimpGamePS2">>

MARKER == "USRDIR"

\* ------------------------------------------------------------- path values
Range(s) == {s[i] : i \in 1..Len(s)}

Names == Range(USRDIR_DIRS) \cup Range(USRDIR_DIRS_ORIGINAL)

None == [type |-> "None", path |-> <<>>]

Str(p) == [type |-> "str", path |-> p]

PathObj(p) == [type |-> "Path", path |-> p]

\* Python truthiness of a stored value and the isinstance/strip test of line 126
NonEmptyStr(v) == v.type = "str" /\ v.path # <<>>

\* os.path.join(p, name) and Path(p) / name
Join(p, name) == Append(p, name)

\* ------------------------------------------------------------- file system
\* A directory tree, as far as the resolver looks into it: which required
\* names are subdirectories of the root, whether the marker subdirectory
\* exists, which required names are subdirectories of the marker, and how
\* many regular files lie outside and inside the marker subdirectory.
Absent == [kind |-> "absent", top |-> {}, marker |-> FALSE, usr |-> {}, files |-> 0, ufiles |-> 0]

RegularFile == [kind |-> "file", top |-> {}, marker |-> FALSE, usr |-> {}, files |-> 0, ufiles |-> 0]

Dir(top, marker, usr, files, ufiles) ==
    [kind |-> "dir", top |-> top, marker |-> marker, usr |-> usr,
     files |-> files, ufiles |-> ufiles]

EXT1 == <<"EXT1">>

Roots == {EXT1, local_data_path}

IsRoot(p) == p \in Roots

IsMarkerOfRoot(p) ==
    /\ Len(p) >= 2
    /\ SubSeq(p, 1, Len(p) - 1) \in Roots
    /\ p[Len(p)] = MARKER

Parent(p) == SubSeq(p, 1, Len(p) - 1)

\* the tree rooted at p (Absent when p names nothing the model knows)
TreeAt(f, p) ==
    IF IsRoot(p) THEN f[p]
    ELSE IF IsMarkerOfRoot(p) /\ f[Parent(p)].kind = "dir" /\ f[Parent(p)].marker
         THEN Dir(f[Parent(p)].usr, FALSE, {}, f[Parent(p)].ufiles, 0)
    ELSE Absent

\* os.path.exists
Exists(f, p) == TreeAt(f, p).kind # "absent"

\* os.path.isdir for a root or a marker path
IsDirTree(f, p) == TreeAt(f, p).kind = "dir"

\* os.path.isdir(os.path.join(base, name)) for a base that is a directory
HasSubdir(f, base, name) ==
    LET t == TreeAt(f, base) IN
    /\ t.kind = "dir"
    /\ \/ name \in t.top
       \/ name = MARKER /\ t.marker

\* os.walk(p): the number of regular files below p
CountFiles(f, p) ==
    LET t == TreeAt(f, p) IN
    IF t.kind = "dir" THEN t.files + t.ufiles ELSE 0

\* ------------------------------------------------------ check_dirs_exist
\* mutant of check_dirs_exist: one name found is taken for all of them
check_dirs_exist_any(f, base_path, required_dirs) ==
    IF ~IsDirTree(f, base_path.path) THEN FALSE
    ELSE LET found == SelectSeq(required_dirs,
                                LAMBDA d : HasSubdir(f, base_path.path, d))
         IN  found # <<>>

\* base_path is a path value (str or Path); both work with os.path
check_dirs_exist(f, base_path, required_dirs) ==
    IF ~IsDirTree(f, base_path.path) THEN FALSE
    ELSE LET missing == SelectSeq(required_dirs,
                                  LAMBDA d : ~HasSubdir(f, base_path.path, d))
         IN  missing = <<>>

\* lines 130-136: the marker test on the configured path (os.path.join: a str)
ConfigValidationRoot(f, effective) ==
    IF HasSubdir(f, effective.path, MARKER)
    THEN Str(Join(effective.path, MARKER))
    ELSE effective

\* mutant of EffectiveValidationRoot: the marker is not looked for
EffectiveValidationRoot_IgnoresMarker(f, effective) == effective

\* lines 327-341: the marker test on the effective path
\* (Path(effective_source_path) / "USRDIR": a Path object)
EffectiveValidationRoot(f, effective) ==
    IF HasSubdir(f, effective.path, MARKER)
    THEN PathObj(Join(effective.path, MARKER))
    ELSE effective

\* mutant of ValidateEitherSet: the second list is tested whatever the first gave
ValidateEitherSet_NoShortCircuit(f, root) ==
    LET fo == check_dirs_exist(f, root, USRDIR_DIRS_ORIGINAL)
        fu == check_dirs_exist(f, root, USRDIR_DIRS)
    IN  [found_original |-> fo,
         found_usrdir   |-> fu,
         tested         |-> <<"USRDIR_DIRS_ORIGINAL", "USRDIR_DIRS">>]

\* lines 142-147 and 345-350: the first list, and the second only if the
\* first did not match; tested records the calls of check_dirs_exist
ValidateEitherSet(f, root) ==
    LET fo == check_dirs_exist(f, root, USRDIR_DIRS_ORIGINAL)
        fu == IF ~fo THEN check_dirs_exist(f, root, USRDIR_DIRS) ELSE FALSE
    IN  [found_original |-> fo,
         found_usrdir   |-> fu,
         tested         |-> IF ~fo THEN <<"USRDIR_DIRS_ORIGINAL", "USRDIR_DIRS">>
                                   ELSE <<"USRDIR_DIRS_ORIGINAL">>]

\* line 354
ListName(fo, fu) == IF fu THEN "USRDIR_DIRS" ELSE "USRDIR_DIRS_ORIGINAL"

\* ------------------------------------------------------------ config file
\* The JSON document: whether the RemakeEngine and Directories objects are
\* there, the two path keys of Directories, Config.project_path, the keys of
\* Tools (when Tools is there) and the other keys the resolver never names.
Doc(re, dirs, src, main, proj, hasTools, tools, other) ==
    [RemakeEngine |-> re, Directories |-> dirs,
     TSGPS2SourcePath |-> src, MainTSGPS2SourcePath |-> main,
     project_path |-> proj, hasTools |-> hasTools, Tools |-> tools,
     other |-> other]

\* mutant of default_data: the source path starts as the project directory
default_data_ProjectAsSource ==
    [RemakeEngine |-> TRUE, Directories |-> TRUE,
     TSGPS2SourcePath |-> Str(project_base_dir), MainTSGPS2SourcePath |-> None,
     project_path |-> Str(project_base_dir), hasTools |-> TRUE, Tools |-> {},
     other |-> {}]

\* lines 89-95
default_data == Doc(TRUE, TRUE, Str(<<>>), None, Str(project_base_dir), TRUE, {}, {})

EmptyDoc == Doc(FALSE, FALSE, None, None, None, FALSE, {}, {})

\* line 125: config_data.get("RemakeEngine", {}).get("Directories", {}).get(...)
GetSourcePath(doc) ==
    IF doc.RemakeEngine /\ doc.Directories THEN doc.TSGPS2SourcePath ELSE None

\* lines 174-175, 310-313, 359-362: create the missing objects on demand
EnsureDirectories(doc) ==
    [doc EXCEPT !.RemakeEngine = TRUE, !.Directories = TRUE]

\* mutant of SetMainSourcePath: the answer goes under TSGPS2SourcePath
SetMainSourcePath_SourceKey(doc, v) ==
    [EnsureDirectories(doc) EXCEPT !.TSGPS2SourcePath = v]

\* line 176
SetMainSourcePath(doc, v) ==
    [EnsureDirectories(doc) EXCEPT !.MainTSGPS2SourcePath = v]

\* mutant of SetSourcePath: the value goes under the provisional key
SetSourcePath_ProvisionalKey(doc, v) ==
    [EnsureDirectories(doc) EXCEPT !.MainTSGPS2SourcePath = v]

\* mutant of SetSourcePath: the document is rebuilt from the defaults
SetSourcePath_FromDefaults(doc, v) ==
    [default_data EXCEPT !.TSGPS2SourcePath = v,
                         !.MainTSGPS2SourcePath = doc.MainTSGPS2SourcePath]

\* lines 314 and 363
SetSourcePath(doc, v) ==
    [EnsureDirectories(doc) EXCEPT !.TSGPS2SourcePath = v]

NoFile == [kind |-> "absent", doc |-> EmptyDoc]

\* a file that json.load rejects (truncated or otherwise malformed)
Malformed == [kind |-> "corrupt", doc |-> EmptyDoc]

FileWith(doc) == [kind |-> "doc", doc |-> doc]

\* json.dump raises TypeError on a value that is not a JSON type
Serializable(doc) ==
    /\ doc.TSGPS2SourcePath.type # "Path"
    /\ doc.MainTSGPS2SourcePath.type # "Path"
    /\ doc.project_path.type # "Path"

\* what the operating system does to one open(..., 'w') + json.dump
IOOutcomes == {"ok", "open_fails", "write_fails"}

\* with open(config_file_path, 'w') as f: json.dump(doc, f, indent=4):
\* open truncates the file, the encoder writes chunk by chunk, so an
\* exception inside json.dump leaves a truncated document behind
WriteJson(old, doc, io) ==
    IF io = "open_fails" THEN [disk |-> old, raised |-> TRUE]
    ELSE IF io = "write_fails" \/ ~Serializable(doc)
         THEN [disk |-> Malformed, raised |-> TRUE]
    ELSE [disk |-> FileWith(doc), raised |-> FALSE]

\* ---------------------------------------------------------- file transfer
\* os.makedirs(dst, exist_ok=True): raises when dst is a regular file or the
\* operating system refuses; leaves an existing directory alone
MakeDirsRaises(f, dst, os_ok) == ~os_ok \/ TreeAt(f, dst).kind = "file"

MakeDirs(f, dst) ==
    IF f[dst].kind = "dir" THEN f
    ELSE [f EXCEPT ![dst] = Dir({}, FALSE, {}, 0, 0)]

\* shutil.copytree(src, dst, dirs_exist_ok=True): the directories of src,
\* merged into what dst already holds
CopyDirectories(f, src, dst) ==
    LET s == TreeAt(f, src)
        d == MakeDirs(f, dst)[dst]
    IN  [f EXCEPT ![dst] = [d EXCEPT !.top = d.top \cup s.top,
                                     !.marker = d.marker \/ s.marker,
                                     !.usr = d.usr \cup s.usr]]

\* copy2 of the k-th file that copytree visits (files of the root first)
CopyOneFile(f, src, dst, k) ==
    IF k <= TreeAt(f, src).files
    THEN [f EXCEPT ![dst].files = @ + 1]
    ELSE [f EXCEPT ![dst].ufiles = @ + 1]

\* what is left at src once its tree has been moved away
RemoveTree(f, src) ==
    IF IsRoot(src) THEN [f EXCEPT ![src] = Absent]
    ELSE [f EXCEPT ![Parent(src)].marker = FALSE,
                   ![Parent(src)].usr = {},
                   ![Parent(src)].ufiles = 0]

\* shutil.move(src, dst) with dst absent: the tree is at dst and gone from src
MoveTree(f, src, dst) == RemoveTree([f EXCEPT ![dst] = TreeAt(f, src)], src)

\* a move that raised: nothing happened, or the tree was copied and the
\* source could not be removed
MoveFailed(f, src, dst, how) ==
    IF how = "untouched" THEN f ELSE [f EXCEPT ![dst] = TreeAt(f, src)]

\* ------------------------------------------------------------------ state
VARIABLES
    disk,                       \* the file project.json
    fs,                         \* the directory trees at Roots
    pc,                         \* where check_or_create_config / main stands
    config_data,                \* the loaded document
    path_from_config,
    source_path_valid_in_file,
    effective_source_path,
    path_to_validate,
    found_original,
    found_usrdir,
    choice,
    total_files,
    copied_files_count,
    copy_visited,               \* files copytree has called the copy function on
    copy_errors,                \* copytree's list of errors is not empty
    status,                     \* the returned status code
    path_value,                 \* the returned path
    depth,                      \* nested calls of main
    runs,                       \* invocations of the script so far
    h                           \* history of this run, for stating properties

locals == <<config_data, path_from_config, source_path_valid_in_file,
            effective_source_path, path_to_validate, found_original,
            found_usrdir, choice, total_files, copied_files_count,
            copy_visited, copy_errors>>

vars == <<disk, fs, pc, locals, status, path_value, depth, runs, h>>

validation == <<path_to_validate, found_original, found_usrdir>>

copying == <<total_files, copied_files_count, copy_visited, copy_errors>>

\* what a run remembers of the run before it, when there was none worth remembering
NoPrev == [valid |-> FALSE, root |-> None, clean |-> FALSE]

\* the history of a run that has just been entered
NewHistory(d) ==
    [startAbsent   |-> d.kind = "absent",   \* no config file when the run began
     startDisk     |-> d,
     pathPrompts   |-> 0,                   \* input() calls of the path loop
     choicePrompts |-> 0,                   \* input() calls of the choice loop
     copytrees     |-> 0,                   \* calls of shutil.copytree
     moves         |-> 0,                   \* calls of shutil.move
     mkdirs        |-> 0,                   \* os.makedirs calls that created local_data_path
     validations   |-> 0,                   \* validations of a root
     valRoot       |-> None,                \* the root the last validation was asked about
     valFs         |-> "none",              \* "config" or "effective": which validation ran last
     tested        |-> <<>>,                \* lists check_dirs_exist was called with, last validation
     matched       |-> "none",              \* list name reported at line 355
     localAtConfirm |-> "unknown",          \* os.path.exists(local_data_path) at line 198
     prepareFailed |-> FALSE,               \* Copy raised OSError before copytree (line 226)
     askedAfterPrepare |-> FALSE,           \* the choice was answered again after that
     transferFailed |-> FALSE,              \* shutil.copytree or shutil.move raised
     askedAfterFailure |-> FALSE,           \* the choice was answered again after that
     osFailed      |-> FALSE,               \* the operating system refused a read or write of the config
     readFailed    |-> FALSE,               \* open(config_file_path, 'r') raised (line 115)
     turn          |-> FALSE,               \* parity of the answers given after the counted ones
     moveRejected  |-> FALSE,               \* line 278 refused a move
     outside       |-> FALSE,               \* someone else changed the file system
     writes        |-> 0,                   \* attempts to write the config file
     effSaved      |-> "none",              \* outcome of the write of lines 309-320
     diskAtReval   |-> d,                   \* the file just before that write
     validSaved    |-> "none",              \* outcome of the write of lines 358-369
     provSaved     |-> "none",              \* outcome of the write of lines 173-182
     supplied      |-> None,                \* the input() answer that left the path loop
     progress      |-> <<>>,                \* counter values shown by line 245, in order
     prev          |-> NoPrev]              \* the run before this one

\* local variables before any assignment
InitLocals ==
    /\ config_data = EmptyDoc
    /\ path_from_config = None
    /\ source_path_valid_in_file = FALSE
    /\ effective_source_path = None
    /\ path_to_validate = None
    /\ found_original = FALSE
    /\ found_usrdir = FALSE
    /\ choice = ""
    /\ total_files = 0
    /\ copied_files_count = 0
    /\ copy_visited = 0
    /\ copy_errors = FALSE

ResetLocals ==
    /\ config_data' = EmptyDoc
    /\ path_from_config' = None
    /\ source_path_valid_in_file' = FALSE
    /\ effective_source_path' = None
    /\ path_to_validate' = None
    /\ found_original' = FALSE
    /\ found_usrdir' = FALSE
    /\ choice' = ""
    /\ total_files' = 0
    /\ copied_files_count' = 0
    /\ copy_visited' = 0
    /\ copy_errors' = FALSE

\* ---------------------------------------------------------- initial states
SourceTrees ==
    { Dir(Names, FALSE, {}, 2, 0),                  \* flat layout, with files
      Dir(Names, FALSE, {}, 0, 0),                  \* flat layout, no file at all
      Dir({}, TRUE, Names, 0, 1),                   \* layout inside the marker
      Dir(Names, TRUE, Names \ {"SUBTITLE"}, 1, 1), \* root complete, marker not
      Dir(Names \ {"ENVS"}, FALSE, {}, 1, 0) }      \* one name missing

LocalTrees ==
    { Absent, RegularFile,
      Dir(Names, FALSE, {}, 0, 0),
      Dir({}, TRUE, Names, 0, 0) }

ConfiguredPaths ==
    { <<>>, EXT1, Join(EXT1, MARKER), local_data_path, <<"NOPE">> }

InitialFiles ==
    {NoFile, Malformed}
    \cup {FileWith([default_data EXCEPT !.TSGPS2SourcePath = Str(p)]) : p \in ConfiguredPaths}
    \cup {FileWith(EmptyDoc),
          FileWith(Doc(TRUE, FALSE, None, None, Str(project_base_dir), TRUE, {"QuickBMS"}, {"Notes"}))}

\* what the operator may type at the path prompt
PathInputs == { <<>>, EXT1, Join(EXT1, MARKER), <<"NOPE">> }

\* what the operator may type at the choice prompt
ChoiceInputs == {"1", "2", "3", "x"}

Init ==
    /\ disk \in InitialFiles
    /\ fs \in [Roots -> SourceTrees \cup LocalTrees]
    /\ fs[EXT1] \in SourceTrees
    /\ fs[local_data_path] \in LocalTrees
    /\ pc = "Start"
    /\ InitLocals
    /\ status = NoStatus
    /\ path_value = None
    /\ depth = 0
    /\ runs = 1
    /\ h = NewHistory(disk)

\* ----------------------------------------------------------------- steps
Return(st, pv) ==
    /\ status' = st
    /\ path_value' = pv
    /\ pc' = "done"

\* outcome of one write attempt, as the history records it
Outcome(w) == IF w.raised THEN "raised" ELSE "ok"

\* mutant of CreateConfig: CREATED is returned whether or not the file was written
CreateConfig_AlwaysCreated(io) ==
    /\ pc = "Start"
    /\ ~(disk.kind # "absent")
    /\ LET w == WriteJson(disk, default_data, io) IN
       /\ disk' = IF w.raised THEN disk ELSE w.disk
       /\ h' = [h EXCEPT !.writes = @ + 1, !.osFailed = @ \/ io # "ok"]
       /\ Return(CREATED, None)
    /\ UNCHANGED <<fs, locals, depth, runs>>

\* lines 98-108: there is no config file: create it and return
CreateConfig(io) ==
    /\ pc = "Start"
    /\ ~(disk.kind # "absent")
    /\ LET w == WriteJson(disk, default_data, io) IN
       /\ disk' = w.disk
       /\ h' = [h EXCEPT !.writes = @ + 1, !.osFailed = @ \/ io # "ok"]
       /\ IF w.raised THEN Return(ERROR_CREATE, None) ELSE Return(CREATED, None)
    /\ UNCHANGED <<fs, locals, depth, runs>>

\* mutant of LoadConfig: a file that cannot be loaded is replaced by the defaults
LoadConfig_RecreatesOnError(read_ok) ==
    /\ pc = "Start"
    /\ disk.kind # "absent"
    /\ h' = [h EXCEPT !.readFailed = ~read_ok, !.osFailed = @ \/ ~read_ok]
    /\ IF ~read_ok \/ disk.kind = "corrupt"
       THEN /\ disk' = FileWith(default_data)
            /\ Return(CREATED, None)
            /\ UNCHANGED config_data
       ELSE /\ config_data' = disk.doc
            /\ pc' = "Check2"
            /\ UNCHANGED <<disk, status, path_value>>
    /\ UNCHANGED <<fs, path_from_config, source_path_valid_in_file,
                   effective_source_path, validation, choice, copying,
                   depth, runs>>

\* lines 110-119: the file exists: read and parse it; open() may raise
\* (read_ok is FALSE), json.load raises on a malformed document
LoadConfig(read_ok) ==
    /\ pc = "Start"
    /\ disk.kind # "absent"
    /\ h' = [h EXCEPT !.readFailed = ~read_ok, !.osFailed = @ \/ ~read_ok]
    /\ IF ~read_ok \/ disk.kind = "corrupt"
       THEN /\ Return(ERROR_READ, None)
            /\ UNCHANGED config_data
       ELSE /\ config_data' = disk.doc
            /\ pc' = "Check2"
            /\ UNCHANGED <<status, path_value>>
    /\ UNCHANGED <<disk, fs, path_from_config, source_path_valid_in_file,
                   effective_source_path, validation, choice, copying,
                   depth, runs>>

\* line 126-127: the configured value is worth validating
ConfiguredIsDirectory(f, v) == NonEmptyStr(v) /\ IsDirTree(f, v.path)

\* lines 121-158: validate the configured path
CheckSourcePath ==
    /\ pc = "Check2"
    /\ LET pfc == GetSourcePath(config_data) IN
       /\ path_from_config' = pfc
       /\ IF ConfiguredIsDirectory(fs, pfc)
          THEN LET root == ConfigValidationRoot(fs, pfc)
                   v == ValidateEitherSet(fs, root)
               IN  /\ effective_source_path' = pfc
                   /\ path_to_validate' = root
                   /\ found_original' = v.found_original
                   /\ found_usrdir' = v.found_usrdir
                   /\ source_path_valid_in_file' = (v.found_usrdir \/ v.found_original)
                   /\ h' = [h EXCEPT !.validations = @ + 1, !.valRoot = pfc,
                                     !.valFs = "config", !.tested = v.tested]
                   /\ pc' = IF v.found_usrdir \/ v.found_original
                            THEN "Check3" ELSE "NeedsInput"
          ELSE /\ pc' = "NeedsInput"
               /\ UNCHANGED <<effective_source_path, validation,
                              source_path_valid_in_file, h>>
    /\ UNCHANGED <<disk, fs, config_data, choice, copying, status, path_value,
                   depth, runs>>

\* mutant of PathAccepted: the empty answer is taken as well
PathAccepted_AllowsEmpty(f, input) == input = <<>> \/ IsDirTree(f, input)

\* lines 166-169: the answer ends the prompt loop
PathAccepted(f, input) == input # <<>> /\ IsDirTree(f, input)

\* lines 163-168, 184-185: an empty answer or one that is no directory
PromptPathAgain(input) ==
    /\ pc = "NeedsInput"
    /\ ~PathAccepted(fs, input)
    /\ h.pathPrompts < MaxPrompts
    /\ h' = [h EXCEPT !.pathPrompts = @ + 1]
    /\ UNCHANGED <<disk, fs, pc, locals, status, path_value, depth, runs>>

\* mutant of PromptPathConfirmed: a failed save ends the run
PromptPathConfirmed_StopsOnFailure(input, io) ==
    /\ pc = "NeedsInput"
    /\ PathAccepted(fs, input)
    /\ path_from_config' = Str(input)
    /\ LET doc == SetMainSourcePath(config_data, Str(input))
           w == WriteJson(disk, doc, io)
       IN  /\ config_data' = doc
           /\ disk' = w.disk
           /\ h' = [h EXCEPT !.pathPrompts = @ + 1, !.writes = @ + 1,
                             !.osFailed = @ \/ io # "ok",
                             !.provSaved = IF w.raised THEN "raised" ELSE "ok",
                             !.supplied = Str(input)]
           /\ IF w.raised
              THEN Return(ERROR_CONFIG_UPDATE, None)
              ELSE /\ pc' = "Check3"
                   /\ UNCHANGED <<status, path_value>>
    /\ UNCHANGED <<fs, source_path_valid_in_file, effective_source_path,
                   validation, choice, copying, depth, runs>>

\* lines 169-189: a directory was given: keep it, save it under the
\* provisional key (a failed save is only a warning), leave the loop
PromptPathConfirmed(input, io) ==
    /\ pc = "NeedsInput"
    /\ PathAccepted(fs, input)
    /\ path_from_config' = Str(input)
    /\ LET doc == SetMainSourcePath(config_data, Str(input))
           w == WriteJson(disk, doc, io)
       IN  /\ config_data' = doc
           /\ disk' = w.disk
           /\ h' = [h EXCEPT !.pathPrompts = @ + 1, !.writes = @ + 1,
                             !.osFailed = @ \/ io # "ok",
                             !.provSaved = IF w.raised THEN "raised" ELSE "ok",
                             !.supplied = Str(input)]
    /\ IF ~NonEmptyStr(path_from_config')
       THEN Return(USER_PROVIDED_PATH_INVALID, None)
       ELSE /\ pc' = "Check3"
            /\ UNCHANGED <<status, path_value>>
    /\ UNCHANGED <<fs, source_path_valid_in_file, effective_source_path,
                   validation, choice, copying, depth, runs>>

\* mutant of LocalDataExists: os.path.isdir in the place of os.path.exists
LocalDataExists_OnlyDirectories(f) == IsDirTree(f, local_data_path)

\* mutant of LocalDataExists: the choice is always asked
LocalDataExists_Never(f) == FALSE

\* line 198: the transfer choice is skipped
LocalDataExists(f) == Exists(f, local_data_path)

\* lines 196-198
CheckLocalData ==
    /\ pc = "Check3"
    /\ effective_source_path' = Str(local_data_path)
    /\ h' = [h EXCEPT !.localAtConfirm =
                 IF Exists(fs, local_data_path) THEN "exists" ELSE "absent"]
    /\ pc' = IF LocalDataExists(fs) THEN "SaveEffective" ELSE "AwaitChoice"
    /\ UNCHANGED <<disk, fs, config_data, path_from_config,
                   source_path_valid_in_file, validation, choice, copying,
                   status, path_value, depth, runs>>

\* the history of one more answer at the choice prompt
Asked(hist) ==
    [hist EXCEPT !.choicePrompts = @ + 1,
                 !.askedAfterPrepare = @ \/ hist.prepareFailed,
                 !.askedAfterFailure = @ \/ hist.transferFailed]

\* lines 208-224: Copy, and the source holds no file: only the directory
\* local_data_path is made
ChooseCopyNoFiles ==
    /\ pc = "AwaitChoice"
    /\ CountFiles(fs, path_from_config.path) = 0
    /\ ~MakeDirsRaises(fs, local_data_path, TRUE)
    /\ choice' = "1"
    /\ total_files' = 0
    /\ effective_source_path' = Str(local_data_path)
    /\ fs' = MakeDirs(fs, local_data_path)
    /\ h' = [Asked(h) EXCEPT !.mkdirs = @ + (IF fs[local_data_path].kind = "dir" THEN 0 ELSE 1)]
    /\ pc' = "SaveEffective"
    /\ UNCHANGED <<disk, config_data, path_from_config,
                   source_path_valid_in_file, validation, copied_files_count,
                   copy_visited, copy_errors, status, path_value, depth, runs>>

\* lines 213-231: Copy, the source holds no file and os.makedirs raises
\* OSError: reported, and the choice is asked again (line 231)
ChooseCopyNoFilesFails(os_ok) ==
    /\ pc = "AwaitChoice"
    /\ CountFiles(fs, path_from_config.path) = 0
    /\ MakeDirsRaises(fs, local_data_path, os_ok)
    /\ h.choicePrompts < MaxPrompts
    /\ choice' = "1"
    /\ total_files' = 0
    /\ h' = [Asked(h) EXCEPT !.prepareFailed = TRUE]
    /\ UNCHANGED <<disk, fs, pc, config_data, path_from_config,
                   source_path_valid_in_file, effective_source_path,
                   validation, copied_files_count, copy_visited, copy_errors,
                   status, path_value, depth, runs>>

\* lines 208-258: Copy, and there are files: count them, enter copytree
ChooseCopy ==
    /\ pc = "AwaitChoice"
    /\ CountFiles(fs, path_from_config.path) # 0
    /\ choice' = "1"
    /\ total_files' = CountFiles(fs, path_from_config.path)
    /\ copied_files_count' = 0
    /\ copy_visited' = 0
    /\ copy_errors' = FALSE
    /\ h' = [Asked(h) EXCEPT !.copytrees = @ + 1]
    /\ pc' = "CopyTree"
    /\ UNCHANGED <<disk, fs, config_data, path_from_config,
                   source_path_valid_in_file, effective_source_path,
                   validation, status, path_value, depth, runs>>

\* copytree's os.makedirs(dst, exist_ok=True), then the directories of src
CopyTreeStart(os_ok) ==
    /\ pc = "CopyTree"
    /\ IF MakeDirsRaises(fs, local_data_path, os_ok)
       THEN /\ Return(ERROR_FILE_OPERATION, None)
            /\ h' = [h EXCEPT !.transferFailed = TRUE]
            /\ UNCHANGED fs
       ELSE /\ fs' = CopyDirectories(fs, path_from_config.path, local_data_path)
            /\ pc' = "CopyFiles"
            /\ UNCHANGED <<status, path_value, h>>
    /\ UNCHANGED <<disk, locals, depth, runs>>

\* mutant of CopyFile: the counter is advanced before copy2 is tried
CopyFile_CountsAttempts(copy_ok) ==
    /\ pc = "CopyFiles"
    /\ copy_visited < total_files
    /\ copy_visited' = copy_visited + 1
    /\ copied_files_count' = copied_files_count + 1
    /\ IF copy_ok
       THEN /\ fs' = CopyOneFile(fs, path_from_config.path, local_data_path,
                                 copy_visited + 1)
            /\ h' = [h EXCEPT !.progress = Append(@, copied_files_count')]
            /\ UNCHANGED copy_errors
       ELSE /\ copy_errors' = TRUE
            /\ UNCHANGED <<fs, h>>
    /\ UNCHANGED <<disk, pc, config_data, path_from_config,
                   source_path_valid_in_file, effective_source_path,
                   validation, choice, total_files, status, path_value,
                   depth, runs>>

\* lines 238-249: copy_with_progress on the next file; an OSError of copy2
\* is collected by copytree, which goes on with the next file
CopyFile(copy_ok) ==
    /\ pc = "CopyFiles"
    /\ copy_visited < total_files
    /\ copy_visited' = copy_visited + 1
    /\ IF copy_ok
       THEN /\ fs' = CopyOneFile(fs, path_from_config.path, local_data_path,
                                 copy_visited + 1)
            /\ copied_files_count' = copied_files_count + 1
            /\ h' = [h EXCEPT !.progress = Append(@, copied_files_count')]
            /\ UNCHANGED copy_errors
       ELSE /\ copy_errors' = TRUE
            /\ UNCHANGED <<fs, copied_files_count, h>>
    /\ UNCHANGED <<disk, pc, config_data, path_from_config,
                   source_path_valid_in_file, effective_source_path,
                   validation, choice, total_files, status, path_value,
                   depth, runs>>

\* lines 259-273: copytree returns, or raises shutil.Error with what it collected
CopyTreeEnd ==
    /\ pc = "CopyFiles"
    /\ copy_visited = total_files
    /\ IF copy_errors
       THEN /\ Return(ERROR_FILE_OPERATION, None)
            /\ h' = [h EXCEPT !.transferFailed = TRUE]
            /\ UNCHANGED effective_source_path
       ELSE /\ effective_source_path' = Str(local_data_path)
            /\ pc' = "SaveEffective"
            /\ UNCHANGED <<status, path_value, h>>
    /\ UNCHANGED <<disk, fs, config_data, path_from_config,
                   source_path_valid_in_file, validation, choice, copying,
                   depth, runs>>

\* mutant of MoveRefused: the destination is not looked at
MoveRefused_Never(f) == FALSE

\* line 278: the destination of a move is already there
MoveRefused(f) == Exists(f, local_data_path)

\* lines 276-282: Move refused, the choice is asked again
ChooseMoveRejected ==
    /\ pc = "AwaitChoice"
    /\ MoveRefused(fs)
    /\ h.choicePrompts < MaxPrompts
    /\ choice' = "2"
    /\ h' = [Asked(h) EXCEPT !.moveRejected = TRUE]
    /\ UNCHANGED <<disk, fs, pc, config_data, path_from_config,
                   source_path_valid_in_file, effective_source_path,
                   validation, copying, status, path_value, depth, runs>>

\* lines 288-292: shutil.move succeeds
ChooseMove ==
    /\ pc = "AwaitChoice"
    /\ ~MoveRefused(fs)
    /\ choice' = "2"
    /\ fs' = MoveTree(fs, path_from_config.path, local_data_path)
    /\ effective_source_path' = Str(local_data_path)
    /\ h' = [Asked(h) EXCEPT !.moves = @ + 1]
    /\ pc' = "SaveEffective"
    /\ UNCHANGED <<disk, config_data, path_from_config,
                   source_path_valid_in_file, validation, copying, status,
                   path_value, depth, runs>>

\* mutant of ChooseMoveFails: the failure is reported and the choice asked again
ChooseMoveFails_AsksAgain(how) ==
    /\ pc = "AwaitChoice"
    /\ ~MoveRefused(fs)
    /\ h.choicePrompts < MaxPrompts
    /\ choice' = "2"
    /\ fs' = MoveFailed(fs, path_from_config.path, local_data_path, how)
    /\ h' = [Asked(h) EXCEPT !.moves = @ + 1, !.transferFailed = TRUE]
    /\ UNCHANGED <<disk, pc, config_data, path_from_config,
                   source_path_valid_in_file, effective_source_path,
                   validation, copying, status, path_value, depth, runs>>

\* lines 293-297: shutil.move raises
ChooseMoveFails(how) ==
    /\ pc = "AwaitChoice"
    /\ ~MoveRefused(fs)
    /\ choice' = "2"
    /\ fs' = MoveFailed(fs, path_from_config.path, local_data_path, how)
    /\ h' = [Asked(h) EXCEPT !.moves = @ + 1, !.transferFailed = TRUE]
    /\ Return(ERROR_FILE_OPERATION, None)
    /\ UNCHANGED <<disk, config_data, path_from_config,
                   source_path_valid_in_file, effective_source_path,
                   validation, copying, depth, runs>>

\* mutant of ChooseUseOriginal: the answer 3 is not acted upon, the choice is asked again
ChooseUseOriginal_AsksAgain ==
    /\ pc = "AwaitChoice"
    /\ choice' = "3"
    /\ h' = [Asked(h) EXCEPT !.choicePrompts = h.choicePrompts, !.turn = ~@]
    /\ UNCHANGED <<disk, fs, pc, config_data, path_from_config,
                   source_path_valid_in_file, effective_source_path,
                   validation, copying, status, path_value, depth, runs>>

\* mutant of ChooseUseOriginal: the local data directory is created all the same
ChooseUseOriginal_MakesLocal ==
    /\ pc = "AwaitChoice"
    /\ choice' = "3"
    /\ effective_source_path' = path_from_config
    /\ fs' = MakeDirs(fs, local_data_path)
    /\ h' = Asked(h)
    /\ pc' = "SaveEffective"
    /\ UNCHANGED <<disk, config_data, path_from_config,
                   source_path_valid_in_file, validation, copying, status,
                   path_value, depth, runs>>

\* lines 299-303: use the confirmed path where it is
ChooseUseOriginal ==
    /\ pc = "AwaitChoice"
    /\ choice' = "3"
    /\ effective_source_path' = path_from_config
    /\ h' = Asked(h)
    /\ pc' = "SaveEffective"
    /\ UNCHANGED <<disk, fs, config_data, path_from_config,
                   source_path_valid_in_file, validation, copying, status,
                   path_value, depth, runs>>

\* lines 305-306: any other answer
InvalidChoice(c) ==
    /\ pc = "AwaitChoice"
    /\ c \notin {"1", "2", "3"}
    /\ h.choicePrompts < MaxPrompts
    /\ choice' = c
    /\ h' = Asked(h)
    /\ UNCHANGED <<disk, fs, pc, config_data, path_from_config,
                   source_path_valid_in_file, effective_source_path,
                   validation, copying, status, path_value, depth, runs>>

\* lines 308-320: write the effective path into the config; a failure is
\* printed and the function goes on
SaveEffectivePath(io) ==
    /\ pc = "SaveEffective"
    /\ LET doc == SetSourcePath(config_data, effective_source_path)
           w == WriteJson(disk, doc, io)
       IN  /\ config_data' = doc
           /\ disk' = w.disk
           /\ h' = [h EXCEPT !.writes = @ + 1, !.effSaved = Outcome(w),
                             !.diskAtReval = disk, !.osFailed = @ \/ io # "ok"]
    /\ pc' = "Validate"
    /\ UNCHANGED <<fs, path_from_config, source_path_valid_in_file,
                   effective_source_path, validation, choice, copying,
                   status, path_value, depth, runs>>

\* lines 327-355 and 372-383: marker check and subdirectory validation of
\* the effective path
ValidateEffective ==
    /\ pc = "Validate"
    /\ LET root == EffectiveValidationRoot(fs, effective_source_path)
           v == ValidateEitherSet(fs, root)
       IN  /\ path_to_validate' = root
           /\ found_original' = v.found_original
           /\ found_usrdir' = v.found_usrdir
           /\ IF v.found_usrdir \/ v.found_original
              THEN /\ pc' = "SaveValid"
                   /\ h' = [h EXCEPT !.validations = @ + 1,
                                     !.valRoot = effective_source_path,
                                     !.valFs = "effective", !.tested = v.tested,
                                     !.matched = ListName(v.found_original, v.found_usrdir)]
                   /\ UNCHANGED <<status, path_value>>
              ELSE /\ Return(EXISTS_INVALID_SUBDIRS, root)
                   /\ h' = [h EXCEPT !.validations = @ + 1,
                                     !.valRoot = effective_source_path,
                                     !.valFs = "effective", !.tested = v.tested]
    /\ UNCHANGED <<disk, fs, config_data, path_from_config,
                   source_path_valid_in_file, effective_source_path, choice,
                   copying, depth, runs>>

\* lines 357-371: write the validated root into the config (a failure is
\* printed only) and return EXISTS_VALID with it
SaveValidPath(io) ==
    /\ pc = "SaveValid"
    /\ LET doc == SetSourcePath(config_data, path_to_validate)
           w == WriteJson(disk, doc, io)
       IN  /\ config_data' = doc
           /\ disk' = w.disk
           /\ h' = [h EXCEPT !.writes = @ + 1, !.validSaved = Outcome(w),
                             !.osFailed = @ \/ io # "ok"]
    /\ Return(EXISTS_VALID, path_to_validate)
    /\ UNCHANGED <<fs, path_from_config, source_path_valid_in_file,
                   effective_source_path, validation, choice, copying,
                   depth, runs>>

\* lines 391-397: main calls itself after CREATED
MainReinvoke ==
    /\ pc = "done"
    /\ status = CREATED
    /\ depth' = depth + 1
    /\ ResetLocals
    /\ status' = NoStatus
    /\ path_value' = None
    /\ h' = NewHistory(disk)
    /\ pc' = "Start"
    /\ UNCHANGED <<disk, fs, runs>>

\* lines 398-429: every other status is reported and main returns
MainReturn ==
    /\ pc = "done"
    /\ status # CREATED
    /\ pc' = "exit"
    /\ UNCHANGED <<disk, fs, locals, status, path_value, depth, runs, h>>

\* line 432-433: the operator runs the script again
NextRun ==
    /\ pc = "exit"
    /\ runs < MaxRuns
    /\ runs' = runs + 1
    /\ depth' = 0
    /\ ResetLocals
    /\ status' = NoStatus
    /\ path_value' = None
    /\ h' = [NewHistory(disk) EXCEPT !.prev =
                IF status = EXISTS_VALID /\ choice \in {"1", "2"}
                THEN [valid |-> TRUE, root |-> path_value, clean |-> ~h.osFailed]
                ELSE NoPrev]
    /\ pc' = "Start"
    /\ UNCHANGED <<disk, fs>>

\* what may appear at local_data_path while the resolver waits for an answer
OutsideTrees == { RegularFile, Dir(Names, FALSE, {}, 0, 0) }

\* someone else creates local_data_path while the choice prompt is waiting
OutsideCreateLocal(t) ==
    /\ pc = "AwaitChoice"
    /\ fs[local_data_path].kind = "absent"
    /\ ~h.outside
    /\ fs' = [fs EXCEPT ![local_data_path] = t]
    /\ h' = [h EXCEPT !.outside = TRUE]
    /\ UNCHANGED <<disk, pc, locals, status, path_value, depth, runs>>

Next ==
    \/ \E io \in IOOutcomes : CreateConfig(io)
    \/ \E read_ok \in BOOLEAN : LoadConfig(read_ok)
    \/ CheckSourcePath
    \/ \E input \in PathInputs : PromptPathAgain(input)
    \/ \E input \in PathInputs, io \in IOOutcomes : PromptPathConfirmed(input, io)
    \/ CheckLocalData
    \/ ChooseCopyNoFiles
    \/ \E os_ok \in BOOLEAN : ChooseCopyNoFilesFails(os_ok)
    \/ ChooseCopy
    \/ \E os_ok \in BOOLEAN : CopyTreeStart(os_ok)
    \/ \E copy_ok \in BOOLEAN : CopyFile(copy_ok)
    \/ CopyTreeEnd
    \/ ChooseMoveRejected
    \/ ChooseMove
    \/ \E how \in {"untouched", "partial"} : ChooseMoveFails(how)
    \/ ChooseUseOriginal
    \/ \E c \in ChoiceInputs : InvalidChoice(c)
    \/ \E io \in IOOutcomes : SaveEffectivePath(io)
    \/ ValidateEffective
    \/ \E io \in IOOutcomes : SaveValidPath(io)
    \/ MainReinvoke
    \/ MainReturn
    \/ NextRun
    \/ \E t \in OutsideTrees : OutsideCreateLocal(t)

Spec == Init /\ [][Next]_vars

\* ------------------------------------------------------------- properties
\* what the file system itself says, independently of the resolver's steps

\* the directory whose contents decide: the marker subdirectory when the root
\* has one, else the root
ResolvedRootOf(f, root) ==
    IF TreeAt(f, root).kind = "dir" /\ TreeAt(f, root).marker
    THEN Join(root, MARKER) ELSE root

\* the required names that are subdirectories of p (none if p is no directory)
SubdirsOf(f, p) == IF TreeAt(f, p).kind = "dir" THEN TreeAt(f, p).top ELSE {}

PrimaryAll(f, p) == Range(USRDIR_DIRS_ORIGINAL) \subseteq SubdirsOf(f, p)

AlternateAll(f, p) == Range(USRDIR_DIRS) \subseteq SubdirsOf(f, p)

\* the run has returned from check_or_create_config
Returned == pc \in {"done", "exit"}

\* the validation of the configured path is the last one that ran, and the
\* file system is still as that validation saw it
AfterConfigValidation == h.valFs = "config" /\ pc \in {"NeedsInput", "Check3"}

\* the same for the validation of the effective path
AfterEffectiveValidation == h.valFs = "effective" /\ pc \in {"SaveValid", "done", "exit"}

\* the on-disk config holds the string s under RemakeEngine.Directories.TSGPS2SourcePath
DiskSourcePathIs(s) ==
    /\ disk.kind = "doc"
    /\ disk.doc.RemakeEngine
    /\ disk.doc.Directories
    /\ disk.doc.TSGPS2SourcePath = Str(s)

\* C1: whenever a run ends in EXISTS_VALID, the config on disk holds the
\* resolved validation root that was returned (the USRDIR subdirectory of the
\* effective path when there is one, else the effective path) -- stated here
\* for the runs in which the operating system refused no write of the file.
C1_ValidPersistsResolvedRoot ==
    (Returned /\ status = EXISTS_VALID /\ ~h.osFailed)
        => /\ path_value.path = ResolvedRootOf(fs, effective_source_path.path)
           /\ DiskSourcePathIs(path_value.path)

\* C2 (as claimed): whenever a run ends in EXISTS_INVALID_SUBDIRS, the config
\* on disk holds exactly the path that was checked and returned, also when
\* that path is the USRDIR subdirectory of the effective path.
C2_InvalidPersistsCheckedPath ==
    (Returned /\ status = EXISTS_INVALID_SUBDIRS /\ ~h.osFailed)
        => DiskSourcePathIs(path_value.path)

\* C2 (amended): whenever a run ends in EXISTS_INVALID_SUBDIRS, the returned
\* path is the resolved root of the effective path, and the write at the start
\* of Revalidate was the last one: if it succeeded the config holds the
\* effective path itself (the parent of the checked path when the marker
\* exists); if it raised, the file is as it was before or is left truncated.
C2_InvalidKeepsEffectivePath ==
    (Returned /\ status = EXISTS_INVALID_SUBDIRS)
        => /\ path_value.path = ResolvedRootOf(fs, effective_source_path.path)
           /\ h.effSaved = "ok" => DiskSourcePathIs(effective_source_path.path)
           /\ h.effSaved = "raised" => disk \in {h.diskAtReval, Malformed}
           /\ h.effSaved # "none"

\* a run ended in EXISTS_INVALID_SUBDIRS on the marker subdirectory, with the
\* effective path saved
C2_Witness ==
    /\ Returned /\ status = EXISTS_INVALID_SUBDIRS
    /\ h.effSaved = "ok"
    /\ path_value.path = Join(effective_source_path.path, MARKER)

\* the run did nothing but try to create the file
NothingButCreate ==
    /\ h.pathPrompts = 0 /\ h.choicePrompts = 0
    /\ h.copytrees = 0 /\ h.moves = 0 /\ h.mkdirs = 0
    /\ h.validations = 0
    /\ pc \in {"Start", "done", "exit"}

\* C3 (as claimed): when there is no config file at the start of a run, the
\* run writes the default document and ends in CREATED, without a prompt, a
\* copy, a move or a validation.
C3_FreshRunCreates ==
    (h.startAbsent /\ Returned)
        => /\ status = CREATED
           /\ disk = FileWith(Doc(TRUE, TRUE, Str(<<>>), None,
                                  Str(project_base_dir), TRUE, {}, {}))
           /\ NothingButCreate

\* C3 (amended): when there is no config file at the start of a run, the run
\* prompts for nothing, copies, moves and validates nothing, and ends either
\* in CREATED with exactly the default document on disk, or, when the file
\* cannot be written, in ERROR_CREATE with no parseable file on disk.
C3_FreshRunCreatesOrFails ==
    h.startAbsent
        => /\ NothingButCreate
           /\ Returned =>
                \/ /\ status = CREATED
                   /\ disk = FileWith(Doc(TRUE, TRUE, Str(<<>>), None,
                                          Str(project_base_dir), TRUE, {}, {}))
                \/ /\ status = ERROR_CREATE
                   /\ disk \in {NoFile, Malformed}

\* a run that found no config file has returned CREATED
C3_Witness == h.startAbsent /\ pc = "done" /\ status = CREATED

\* valid by the marker rule: all names of one list are subdirectories of the
\* marker subdirectory if the root has one, and of the root otherwise
ValidByMarkerRule(f, root) ==
    LET t == TreeAt(f, root)
        S == IF t.kind # "dir" THEN {} ELSE IF t.marker THEN t.usr ELSE t.top
    IN  \/ Range(USRDIR_DIRS_ORIGINAL) \subseteq S
        \/ Range(USRDIR_DIRS) \subseteq S

\* C4: at both validations (configured path, effective path) a root that has
\* a USRDIR subdirectory is judged by USRDIR's contents alone.
C4_MarkerSupersedesRoot ==
    /\ AfterConfigValidation
         => (source_path_valid_in_file <=> ValidByMarkerRule(fs, h.valRoot.path))
    /\ AfterEffectiveValidation
         => /\ (found_original \/ found_usrdir) <=> ValidByMarkerRule(fs, h.valRoot.path)
            /\ status = EXISTS_VALID => ValidByMarkerRule(fs, h.valRoot.path)
            /\ status = EXISTS_INVALID_SUBDIRS => ~ValidByMarkerRule(fs, h.valRoot.path)
            /\ pc = "SaveValid" => ValidByMarkerRule(fs, h.valRoot.path)

\* the effective path holds every required name itself, its USRDIR lacks
\* one, and the run ended in EXISTS_INVALID_SUBDIRS
C4_Witness ==
    /\ AfterEffectiveValidation
    /\ status = EXISTS_INVALID_SUBDIRS
    /\ TreeAt(fs, h.valRoot.path).marker
    /\ Names \subseteq TreeAt(fs, h.valRoot.path).top
    /\ ~(Names \subseteq TreeAt(fs, h.valRoot.path).usr)

\* C5: a validated root that holds all names of the first-tested list
\* (USRDIR_DIRS_ORIGINAL) is valid, the list reported is that one, and
\* check_dirs_exist is not called with the second list; the second list is
\* tested only when the first did not fully match.
C5_PrimaryFirst ==
    (AfterConfigValidation \/ AfterEffectiveValidation)
        => /\ PrimaryAll(fs, path_to_validate.path)
                => /\ found_original
                   /\ ~found_usrdir
                   /\ h.tested = <<"USRDIR_DIRS_ORIGINAL">>
                   /\ AfterConfigValidation => source_path_valid_in_file
                   /\ AfterEffectiveValidation
                        => /\ h.matched = "USRDIR_DIRS_ORIGINAL"
                           /\ status \in {NoStatus, EXISTS_VALID}
           /\ (\E i \in 1..Len(h.tested) : h.tested[i] = "USRDIR_DIRS")
                => ~PrimaryAll(fs, path_to_validate.path)

\* the effective path was validated, it holds all names of the first list
C5_Witness ==
    /\ AfterEffectiveValidation
    /\ pc = "done"
    /\ PrimaryAll(fs, path_to_validate.path)
    /\ status = EXISTS_VALID

\* C6: a validated root that lacks a name of each list (or is no directory)
\* is invalid and no list is reported; a run whose effective path resolves to
\* such a root returns EXISTS_INVALID_SUBDIRS, never EXISTS_VALID.
C6_MissingFromBothFails ==
    /\ (AfterConfigValidation /\ ~PrimaryAll(fs, path_to_validate.path)
                              /\ ~AlternateAll(fs, path_to_validate.path))
         => /\ ~source_path_valid_in_file
            /\ ~found_original /\ ~found_usrdir
            /\ h.matched = "none"
    /\ (AfterEffectiveValidation /\ ~PrimaryAll(fs, path_to_validate.path)
                                 /\ ~AlternateAll(fs, path_to_validate.path))
         => /\ ~found_original /\ ~found_usrdir
            /\ h.matched = "none"
            /\ status = EXISTS_INVALID_SUBDIRS
            /\ pc # "SaveValid"

\* a run ended in EXISTS_INVALID_SUBDIRS on a directory that lacks one name
C6_Witness ==
    /\ AfterEffectiveValidation
    /\ pc = "done"
    /\ status = EXISTS_INVALID_SUBDIRS
    /\ TreeAt(fs, path_to_validate.path).kind = "dir"
    /\ Cardinality(Names \ SubdirsOf(fs, path_to_validate.path)) = 1

\* a run ended in EXISTS_INVALID_SUBDIRS because the root is a regular file
C6_NotADirectory ==
    /\ AfterEffectiveValidation
    /\ status = EXISTS_INVALID_SUBDIRS
    /\ TreeAt(fs, path_to_validate.path).kind = "file"

\* C8: when Move is chosen while local_data_path exists, nothing is touched:
\* the file system and the config file stay as they are, shutil.move is not
\* called, no status is returned and the choice prompt is shown again.
C8_RefusedMoveTouchesNothing ==
    [][(/\ pc = "AwaitChoice"
        /\ Exists(fs, local_data_path)
        /\ choice' = "2"
        /\ h'.choicePrompts = h.choicePrompts + 1)
       => /\ fs' = fs
          /\ disk' = disk
          /\ h'.moves = h.moves
          /\ h'.writes = h.writes
          /\ status' = NoStatus
          /\ pc' = "AwaitChoice"]_vars

\* Move was answered while local_data_path existed, and the prompt is back
C8_Witness ==
    /\ pc = "AwaitChoice"
    /\ choice = "2"
    /\ h.moveRejected
    /\ Exists(fs, local_data_path)

\* C9: if local_data_path exists when the path has been confirmed, no choice
\* is asked, nothing is copied, moved or created, and the effective path is
\* local_data_path whatever the confirmed path was; a choice is asked only
\* when local_data_path did not exist at that point, and a run makes at most
\* one transfer (copytree, move, or creation of the empty destination).
C9_ExistingLocalSkipsTransfer ==
    /\ h.localAtConfirm = "exists"
         => /\ h.choicePrompts = 0
            /\ h.copytrees = 0 /\ h.moves = 0 /\ h.mkdirs = 0
            /\ pc \in {"SaveEffective", "Validate", "SaveValid", "done", "exit"}
            /\ effective_source_path = Str(local_data_path)
    /\ (h.choicePrompts > 0 \/ pc \in {"AwaitChoice", "CopyTree", "CopyFiles"})
         => h.localAtConfirm = "absent"
    /\ h.copytrees + h.moves + h.mkdirs <= 1

\* a run whose confirmed path is another directory went through Revalidate
\* with local_data_path, which existed
C9_Witness ==
    /\ h.localAtConfirm = "exists"
    /\ pc = "done"
    /\ status \in {EXISTS_VALID, EXISTS_INVALID_SUBDIRS}
    /\ path_from_config.path = EXT1
    /\ h.valRoot = Str(local_data_path)

\* C10 (as claimed): every failure of a Copy or a Move, also one before any
\* file is copied, ends the run in ERROR_FILE_OPERATION; the choice is not
\* asked again.
C10_EveryFailureIsFatal ==
    (h.prepareFailed \/ h.transferFailed)
        => /\ Returned
           /\ status = ERROR_FILE_OPERATION
           /\ ~h.askedAfterPrepare
           /\ ~h.askedAfterFailure

\* C10 (amended): a failure raised by shutil.copytree or shutil.move ends the
\* run in ERROR_FILE_OPERATION: the choice is not asked again and no further
\* transfer is made.  An OSError raised before copytree is called (while the
\* files are counted or the destination of a file-less source is created) is
\* reported, returns no status, and the choice is asked again.
C10_TransferFailureIsFatal ==
    /\ h.transferFailed
         => /\ Returned
            /\ status = ERROR_FILE_OPERATION
            /\ ~h.askedAfterFailure
            /\ h.copytrees + h.moves + h.mkdirs = 1
    /\ (h.prepareFailed /\ ~h.askedAfterPrepare)
         => /\ pc = "AwaitChoice"
            /\ status = NoStatus
            /\ h.copytrees + h.moves + h.mkdirs = 0

\* shutil.copytree has raised after copying part of the files
C10_Witness ==
    /\ h.transferFailed
    /\ pc = "done"
    /\ choice = "1"
    /\ copy_errors
    /\ copied_files_count > 0

\* the other case: Copy failed before copytree and the prompt is back
C10_PrepareWitness == h.prepareFailed /\ pc = "AwaitChoice" /\ ~h.askedAfterPrepare

\* the statuses that report a failure to create, read or update the config
ConfigErrorStatuses == {ERROR_CREATE, ERROR_READ, ERROR_CONFIG_UPDATE}

\* C11: when the write of the effective path (lines 309-320) or the write of
\* the validated root (lines 358-369) fails, the run ends in an error status
\* and never in EXISTS_VALID or EXISTS_INVALID_SUBDIRS.
C11_FailedSaveEndsInError ==
    (Returned /\ (h.effSaved = "raised" \/ h.validSaved = "raised"))
        => /\ status \in ConfigErrorStatuses
           /\ status \notin {EXISTS_VALID, EXISTS_INVALID_SUBDIRS}

\* C12: a config file that a run found parseable stays a parseable document,
\* and once the run has written it, it holds RemakeEngine and
\* RemakeEngine.Directories -- stated here for the runs in which the
\* operating system refused no write of the file.
C12_ConfigStaysParseable ==
    (h.startDisk.kind = "doc" /\ ~h.osFailed)
        => /\ disk.kind = "doc"
           /\ disk # h.startDisk => (disk.doc.RemakeEngine /\ disk.doc.Directories)

\* the part of C12 about keys that are missing: every write that succeeds
\* leaves a document with RemakeEngine.Directories, whatever was loaded
C12_MissingKeysAreCreated ==
    (h.writes > 0 /\ disk.kind = "doc" /\ disk # h.startDisk)
        => (disk.doc.RemakeEngine /\ disk.doc.Directories)

\* C13: whatever a run saves, the keys of the loaded document outside
\* RemakeEngine.Directories (project_path, Tools, any other top-level key)
\* are in the file with the values they were loaded with, and no object
\* that was there is gone.
C13_SavesKeepOtherKeys ==
    (h.startDisk.kind = "doc" /\ disk.kind = "doc")
        => /\ disk.doc.project_path = h.startDisk.doc.project_path
           /\ disk.doc.hasTools = h.startDisk.doc.hasTools
           /\ disk.doc.Tools = h.startDisk.doc.Tools
           /\ disk.doc.other = h.startDisk.doc.other
           /\ h.startDisk.doc.RemakeEngine => disk.doc.RemakeEngine
           /\ h.startDisk.doc.Directories => disk.doc.Directories

\* a document with keys of its own has been through both the provisional
\* save and the save of the validated root
C13_Witness ==
    /\ Returned /\ status = EXISTS_VALID
    /\ h.provSaved = "ok" /\ h.effSaved = "ok" /\ h.validSaved = "ok"
    /\ h.startDisk.kind = "doc"
    /\ h.startDisk.doc.Tools # {} /\ h.startDisk.doc.other # {}
    /\ disk.kind = "doc" /\ disk # h.startDisk
    /\ disk.doc.Tools = h.startDisk.doc.Tools

\* shutil.copytree was called in this run and has returned or raised
CopyFinished == h.copytrees > 0 /\ pc \notin {"CopyTree", "CopyFiles"}

\* the counter values 1, 2, ..., n
CountingTo(n) == [i \in 1..n |-> i]

C14_FailureWitness ==
    /\ CopyFinished /\ copy_errors
    /\ total_files = 2
    /\ h.progress = <<1>>

\* the operator chose Copy, the copy was reported as done (copytree returned,
\* or there was nothing to copy), and the run went on to validate and returned
CopySucceeded == Returned /\ choice = "1" /\ h.valFs = "effective"

\* C15: when the confirmed path passes the validation (marker rule applied)
\* and a Copy of it succeeds, local_data_path holds the source's directory
\* structure, passes the validation too, and the run ends in EXISTS_VALID --
\* also for a source whose directories hold no files.
C15_SuccessfulCopyEndsValid ==
    (CopySucceeded /\ ValidByMarkerRule(fs, path_from_config.path))
        => /\ effective_source_path = Str(local_data_path)
           /\ ValidByMarkerRule(fs, local_data_path)
           /\ status = EXISTS_VALID

\* what does hold of C15: the same for the sources that hold a file
C15_CopyOfFilesEndsValid ==
    (CopySucceeded /\ ValidByMarkerRule(fs, path_from_config.path)
                   /\ CountFiles(fs, path_from_config.path) > 0)
        => /\ effective_source_path = Str(local_data_path)
           /\ ValidByMarkerRule(fs, local_data_path)
           /\ status = EXISTS_VALID

\* the run before this one ended in EXISTS_VALID after a Copy or a Move, and
\* the operating system has refused no write of the config in either run
AfterValidTransfer == h.prev.valid /\ h.prev.clean /\ ~h.osFailed

\* C16: the run that follows a run that ended in EXISTS_VALID after a Copy
\* or a Move asks for no path and no choice, copies and moves nothing, reads
\* the config without error and ends in EXISTS_VALID with the same root,
\* which is the TSGPS2SourcePath on disk.
C16_RerunIsIdempotent ==
    AfterValidTransfer
        => /\ h.pathPrompts = 0 /\ h.choicePrompts = 0
           /\ h.copytrees = 0 /\ h.moves = 0 /\ h.mkdirs = 0
           /\ Returned => /\ status = EXISTS_VALID
                          /\ path_value.path = h.prev.root.path
                          /\ DiskSourcePathIs(h.prev.root.path)

\* what does hold of C16: the same when the root of the first run was the
\* effective path itself (no USRDIR subdirectory under local_data_path)
C16_RerunWithoutMarker ==
    (AfterValidTransfer /\ h.prev.root.type = "str")
        => /\ h.pathPrompts = 0 /\ h.choicePrompts = 0
           /\ h.copytrees = 0 /\ h.moves = 0 /\ h.mkdirs = 0
           /\ Returned => /\ status = EXISTS_VALID
                          /\ path_value.path = h.prev.root.path
                          /\ DiskSourcePathIs(h.prev.root.path)

\* such a second run has returned
C16_RerunReached == AfterValidTransfer /\ h.prev.root.type = "str" /\ Returned

\* the run is at the marker check and validation of the effective path, or past it
ValidationBegun ==
    \/ pc \in {"Validate", "SaveValid"}
    \/ Returned /\ h.valFs = "effective"

\* C17: in every state from the start of the validation of the effective
\* path onward, the write of lines 309-320 has taken place and the config on
\* disk records the effective path under TSGPS2SourcePath.
C17_ConfigRecordsEffectivePath ==
    ValidationBegun
        => /\ h.effSaved # "none"
           /\ DiskSourcePathIs(effective_source_path.path)

\* what does hold of C17: the write is attempted after the choice and any
\* transfer are over and before the validation of the effective path, and
\* when it succeeded the file records the effective path until the write of
\* the validated root
C17_SaveBetweenTransferAndValidation ==
    /\ ValidationBegun => h.effSaved # "none"
    /\ h.effSaved # "none" => pc \in {"Validate", "SaveValid", "done", "exit"}
    /\ (h.effSaved = "ok" /\ h.validSaved = "none" /\ ValidationBegun)
          => DiskSourcePathIs(effective_source_path.path)

\* and the file records the effective path to the end of the run when
\* neither write of the run raised
C17_RecordedUnlessSaveRaised ==
    (ValidationBegun /\ h.effSaved = "ok" /\ h.validSaved # "raised")
        => DiskSourcePathIs(effective_source_path.path)

\* the TSGPS2SourcePath of the document the run loaded
ConfiguredPath == GetSourcePath(h.startDisk.doc)

\* that path is missing, empty, no directory, or fails the validation
NeedsRecovery ==
    \/ ~NonEmptyStr(ConfiguredPath)
    \/ ~IsDirTree(fs, ConfiguredPath.path)
    \/ ~ValidByMarkerRule(fs, ConfiguredPath.path)

\* the run is in the path prompt loop or has been through it
EnteredLoop == pc = "NeedsInput" \/ h.pathPrompts > 0

\* C18: the path prompt loop is entered exactly when the configured path is
\* missing, empty, no directory or fails the validation; while the run is in
\* the loop neither the confirmed path nor the config (in memory and on
\* disk) has changed, whatever was answered; the loop is left only with an
\* answer that is a non-empty existing directory, which becomes the
\* confirmed path and is stored under MainTSGPS2SourcePath while
\* TSGPS2SourcePath keeps its loaded value; the file holds exactly that
\* document when the write succeeded (C19 is the case that it raised).
C18_PathLoop ==
    /\ pc \in {"NeedsInput", "Check3"} => (EnteredLoop <=> NeedsRecovery)
    /\ pc = "NeedsInput"
          => /\ path_from_config = ConfiguredPath
             /\ config_data = h.startDisk.doc
             /\ disk = h.startDisk
             /\ h.supplied = None /\ h.writes = 0
    /\ (EnteredLoop /\ pc # "NeedsInput")
          => /\ NonEmptyStr(h.supplied)
             /\ path_from_config = h.supplied
             /\ config_data.RemakeEngine /\ config_data.Directories
             /\ config_data.MainTSGPS2SourcePath = h.supplied
             /\ h.provSaved # "none"
    /\ (EnteredLoop /\ pc = "Check3")
          => /\ IsDirTree(fs, h.supplied.path)
             /\ config_data.TSGPS2SourcePath = h.startDisk.doc.TSGPS2SourcePath
             /\ h.provSaved = "ok"
                   => /\ disk = FileWith(config_data)
                      /\ disk.doc.MainTSGPS2SourcePath = h.supplied
                      /\ disk.doc.TSGPS2SourcePath = h.startDisk.doc.TSGPS2SourcePath

\* a configured directory failed the validation, one answer was rejected,
\* the next one was accepted and saved
C18_Witness ==
    /\ pc = "Check3"
    /\ h.pathPrompts = 2
    /\ h.provSaved = "ok"
    /\ NonEmptyStr(ConfiguredPath) /\ IsDirTree(fs, ConfiguredPath.path)
    /\ h.supplied # ConfiguredPath
    /\ disk.doc.MainTSGPS2SourcePath = h.supplied
    /\ disk.doc.TSGPS2SourcePath = ConfiguredPath

\* the step in which the write of lines 173-182 raised
ProvisionalSaveRaises == h.provSaved = "none" /\ h'.provSaved = "raised"

\* C19: when the provisional save raises, the run neither returns nor asks
\* for the path again: it leaves the loop for the local-data check with the
\* answer as the confirmed path (kept in memory, also under
\* MainTSGPS2SourcePath of the in-memory document), and never comes back to
\* the prompt.
C19_FailedProvisionalSaveGoesOn ==
    /\ [][ProvisionalSaveRaises
            => /\ pc = "NeedsInput" /\ pc' = "Check3"
               /\ status' = NoStatus
               /\ h'.pathPrompts = h.pathPrompts + 1
               /\ PathAccepted(fs, h'.supplied.path)
               /\ path_from_config' = h'.supplied
               /\ config_data'.MainTSGPS2SourcePath = h'.supplied
               /\ disk' \in {disk, Malformed}]_vars
    /\ [](h.provSaved = "raised"
            => /\ pc # "NeedsInput"
               /\ path_from_config = h.supplied
               /\ status # USER_PROVIDED_PATH_INVALID)

\* a run whose provisional save raised went on to use the answer in place
\* and ended in EXISTS_VALID
C19_Witness ==
    /\ h.provSaved = "raised"
    /\ Returned /\ status = EXISTS_VALID
    /\ choice = "3"
    /\ effective_source_path = h.supplied

\* C20: from the answer 3 (use the path where it is) to the end of the run
\* the effective path is the confirmed path and no step creates, copies,
\* moves or deletes anything under the confirmed path or local_data_path:
\* the file system stays as it was, only the config file is written.
C20_UseInPlaceTouchesNothing ==
    /\ [][choice' = "3" => fs' = fs]_vars
    /\ [](choice = "3"
            => /\ pc \in {"SaveEffective", "Validate", "SaveValid", "done", "exit"}
               /\ effective_source_path = path_from_config
               /\ h.copytrees = 0 /\ h.moves = 0)

\* a run that used the path in place has written the config and returned;
\* local_data_path is still absent
C20_Witness ==
    /\ choice = "3"
    /\ Returned /\ status = EXISTS_VALID
    /\ h.effSaved = "ok" /\ disk # h.startDisk
    /\ fs[local_data_path] = Absent

\* the config file was there when the run began and could not be loaded
ConfigUnreadable ==
    /\ ~h.startAbsent
    /\ h.startDisk.kind = "corrupt" \/ h.readFailed

\* C21: a config file that exists but cannot be read or parsed ends the run
\* in ERROR_READ, never in CREATED; the file is left as it was, nothing is
\* written, nothing is asked, nothing is copied, moved or created.
C21_UnreadableConfigIsReadError ==
    ConfigUnreadable
        => /\ pc \in {"Start", "done", "exit"}
           /\ disk = h.startDisk
           /\ h.writes = 0
           /\ h.pathPrompts = 0 /\ h.choicePrompts = 0
           /\ h.copytrees = 0 /\ h.moves = 0 /\ h.mkdirs = 0
           /\ h.validations = 0
           /\ status \in {NoStatus, ERROR_READ}
           /\ Returned => (status = ERROR_READ /\ path_value = None)

\* a run on a malformed file has returned
C21_Witness ==
    /\ h.startDisk.kind = "corrupt"
    /\ Returned /\ status = ERROR_READ
    /\ disk = Malformed

\* a run on a well-formed file that could not be opened has returned
C21_ReadRefusedWitness ==
    /\ h.startDisk.kind = "doc" /\ h.readFailed
    /\ Returned /\ status = ERROR_READ

\* ------------------------------------------------- one run, loops unbounded
\* The two input loops (163-185, 204-306) have no retry limit. Spec counts
\* the answers of a run up to MaxPrompts; the steps below are the same
\* re-prompts once that count is reached: the counters stay, only the parity
\* of the answers is kept, so that a loop that goes on for ever is a cycle.

\* the history of one more answer at the choice prompt, not counted
AskedUncounted(hist) ==
    [Asked(hist) EXCEPT !.choicePrompts = hist.choicePrompts, !.turn = ~hist.turn]

\* lines 163-168, 184-185
PromptPathAgainUncounted(input) ==
    /\ pc = "NeedsInput"
    /\ ~PathAccepted(fs, input)
    /\ h.pathPrompts >= MaxPrompts
    /\ h' = [h EXCEPT !.turn = ~@]
    /\ UNCHANGED <<disk, fs, pc, locals, status, path_value, depth, runs>>

\* lines 213-231: os.makedirs raises OSError, the choice is asked again
ChooseCopyNoFilesFailsUncounted(os_ok) ==
    /\ pc = "AwaitChoice"
    /\ CountFiles(fs, path_from_config.path) = 0
    /\ MakeDirsRaises(fs, local_data_path, os_ok)
    /\ h.choicePrompts >= MaxPrompts
    /\ choice' = "1"
    /\ total_files' = 0
    /\ h' = [AskedUncounted(h) EXCEPT !.prepareFailed = TRUE]
    /\ UNCHANGED <<disk, fs, pc, config_data, path_from_config,
                   source_path_valid_in_file, effective_source_path,
                   validation, copied_files_count, copy_visited, copy_errors,
                   status, path_value, depth, runs>>

\* lines 276-282
ChooseMoveRejectedUncounted ==
    /\ pc = "AwaitChoice"
    /\ MoveRefused(fs)
    /\ h.choicePrompts >= MaxPrompts
    /\ choice' = "2"
    /\ h' = [AskedUncounted(h) EXCEPT !.moveRejected = TRUE]
    /\ UNCHANGED <<disk, fs, pc, config_data, path_from_config,
                   source_path_valid_in_file, effective_source_path,
                   validation, copying, status, path_value, depth, runs>>

\* lines 305-306
InvalidChoiceUncounted(c) ==
    /\ pc = "AwaitChoice"
    /\ c \notin {"1", "2", "3"}
    /\ h.choicePrompts >= MaxPrompts
    /\ choice' = c
    /\ h' = AskedUncounted(h)
    /\ UNCHANGED <<disk, fs, pc, config_data, path_from_config,
                   source_path_valid_in_file, effective_source_path,
                   validation, copying, status, path_value, depth, runs>>

\* the steps the interpreter takes by itself
ProgramStep ==
    \/ \E io \in IOOutcomes : CreateConfig(io)
    \/ \E read_ok \in BOOLEAN : LoadConfig(read_ok)
    \/ CheckSourcePath
    \/ CheckLocalData
    \/ \E os_ok \in BOOLEAN : CopyTreeStart(os_ok)
    \/ \E copy_ok \in BOOLEAN : CopyFile(copy_ok)
    \/ CopyTreeEnd
    \/ \E io \in IOOutcomes : SaveEffectivePath(io)
    \/ ValidateEffective
    \/ \E io \in IOOutcomes : SaveValidPath(io)
    \/ MainReinvoke
    \/ MainReturn

\* the operator answers the path prompt with an existing directory
ValidPathAnswer == \E input \in PathInputs, io \in IOOutcomes : PromptPathConfirmed(input, io)

\* the operator answers 1, 2 or 3 and the answer is acted upon and leaves the loop
EffectiveChoice ==
    \/ ChooseCopyNoFiles
    \/ ChooseCopy
    \/ ChooseMove
    \/ \E how \in {"untouched", "partial"} : ChooseMoveFails(how)
    \/ ChooseUseOriginal

\* the operator answers 1 and the preparation of the copy raises OSError
CopyPrepareFails ==
    \/ \E os_ok \in BOOLEAN : ChooseCopyNoFilesFails(os_ok)
    \/ \E os_ok \in BOOLEAN : ChooseCopyNoFilesFailsUncounted(os_ok)

\* the operator answers 1, 2 or 3 and the answer is not refused by line 278
UnrejectedChoice == EffectiveChoice \/ CopyPrepareFails

LiveNext ==
    \/ ProgramStep
    \/ ValidPathAnswer
    \/ EffectiveChoice
    \/ CopyPrepareFails
    \/ \E input \in PathInputs : PromptPathAgain(input)
    \/ \E input \in PathInputs : PromptPathAgainUncounted(input)
    \/ ChooseMoveRejected
    \/ ChooseMoveRejectedUncounted
    \/ \E c \in ChoiceInputs : InvalidChoice(c)
    \/ \E c \in ChoiceInputs : InvalidChoiceUncounted(c)
    \/ \E t \in OutsideTrees : OutsideCreateLocal(t)

\* one start of the script: the interpreter keeps running, and the operator
\* at some time answers the path prompt with an existing directory
LiveSpec ==
    /\ Init
    /\ [][LiveNext]_vars
    /\ WF_vars(ProgramStep)
    /\ WF_vars(ValidPathAnswer)

\* main has returned
Terminated == pc = "exit"

\* C22: the run terminates provided the operator, besides answering the
\* path prompt with an existing directory at some time, keeps being ready to
\* answer the choice prompt with 1, 2 or 3 in a way that is not rejected.
C22_TerminatesIfAnswered == WF_vars(UnrejectedChoice) => <>Terminated

\* C22 as it holds: the run terminates provided the answer at the choice
\* prompt is at some time one that is acted upon -- not an invalid one, not
\* a Move refused because the destination exists, and not a Copy whose
\* preparation raises OSError, each of which asks again with no limit.
C22_TerminatesIfChoiceTakesEffect == WF_vars(EffectiveChoice) => <>Terminated

\* a run that was asked for the path and for the choice more than once has ended
C22_Witness ==
    /\ Terminated
    /\ h.pathPrompts > 1
    /\ h.choicePrompts > 1
    /\ h.turn

\* C23: main calls itself only when the resolver has just returned CREATED;
\* the file a CREATED run wrote is there for the nested call, which
\* therefore never returns CREATED, so main is nested at most one level deep.
C23_OneNestedInvocation ==
    /\ [][depth' > depth
            => /\ pc = "done" /\ status = CREATED
               /\ depth' = depth + 1
               /\ disk.kind = "doc" /\ disk' = disk
               /\ pc' = "Start"]_vars
    /\ [][(pc = "done" /\ status # CREATED)
            => (pc' = "exit" /\ depth' = depth /\ status' = status)]_vars
    /\ [](/\ depth \in {0, 1}
          /\ depth = 1 => (~h.startAbsent /\ disk.kind # "absent"
                            /\ status # CREATED))

\* the nested call went through the prompts and returned EXISTS_VALID
C23_Witness ==
    /\ depth = 1
    /\ Returned /\ status = EXISTS_VALID
    /\ h.pathPrompts > 0

\* C24: in a run in which nobody else changes the file system, the choice
\* prompt is only ever waiting while local_data_path does not exist, a Move
\* is only attempted then, and the refusal of line 278 never happens.
C24_MoveRejectionUnreachable ==
    /\ [](~h.outside
            => /\ ~h.moveRejected
               /\ pc = "AwaitChoice" => ~Exists(fs, local_data_path))
    /\ [][h'.moves > h.moves
            => (pc = "AwaitChoice" /\ ~Exists(fs, local_data_path))]_vars

\* a Move was carried out in a run without outside change, after an
\* earlier answer had been asked again
C24_Witness ==
    /\ ~h.outside
    /\ h.moves = 1 /\ ~h.transferFailed
    /\ h.choicePrompts > 1
    /\ Returned
    /\ Exists(fs, local_data_path)

\* C25: no run returns USER_PROVIDED_PATH_INVALID: once the path prompt
\* loop has been left, the confirmed path is a non-empty string, so the
\* guard of line 187 is never taken.
C25_NeverUserInputInvalid ==
    /\ status # USER_PROVIDED_PATH_INVALID
    /\ (h.pathPrompts > 0 /\ pc # "NeedsInput")
          => (path_from_config.type = "str" /\ path_from_config.path # <<>>)

\* the loop has just been left, the run goes on to the local-data check
C25_Witness ==
    /\ pc = "Check3"
    /\ h.pathPrompts > 0
    /\ h.supplied = path_from_config
    /\ status = NoStatus
====
